---- MODULE Spec2Model ----
(***************************************************************************)
(* Model of src/main.py: a FastAPI service that stores short texts with    *)
(* their embeddings and metadata in one Elasticsearch index and answers     *)
(* lexical, semantic and hybrid searches.                                   *)
(*                                                                         *)
(* The backing store is modelled by what the handlers use of it: whether   *)
(* the index exists, the documents by id (what get/index/delete act on,    *)
(* realtime), and the searchable snapshot of them (what search reads; it   *)
(* becomes the current documents at every refresh).  A call to the store   *)
(* that raises has had no effect on it.                                    *)
(*                                                                         *)
(* Each member of Procs is a worker of the application: it runs startup,   *)
(* then serves requests one at a time; workers run concurrently.  A        *)
(* handler is split into one step per call to the store; the computation   *)
(* between two calls (uuid4, embed, building the document) touches nothing *)
(* shared and belongs to the step of the call that follows it.             *)
(***************************************************************************)
EXTENDS Integers, Sequences, FiniteSets, TLC

\* ------------------------------------------------------------------ bounds
\* Ids drawn over a run, and texts in one ingest request.
MaxDocs == 2
MaxBatch == 2
\* Ids drawn over a run in which handlers overlap.
ParDocs == 1

\* ------------------------------------------------------- program constants
EMBEDDING_DIM == 64

\* Two workers.
Procs == {1, 2}
Ids == 1..MaxDocs

\* The texts and queries the requests are drawn from.
Texts == {"hello world", "goodbye"}
Queries == {"hello", "goodbye"}
TopKs == {1, 2}

\* An Optional[...] field of a request.
None == [some |-> FALSE]
Some(v) == [some |-> TRUE, val |-> v]

\* A metadata mapping is the set of its <<key, value>> items.
EmptyMap == {}
LangEn == {<<"lang", "en">>}
Maps == {EmptyMap, LangEn}
OptMaps == {None} \cup {Some(m) : m \in Maps}
OptTexts == {None} \cup {Some(t) : t \in Texts}

\* ---------------------------------------------------------------- embeddings
\* hashlib.sha256(text.encode("utf-8")).digest(), tabulated for the strings of
\* the model (32 bytes each).
Sha256Digest(text) ==
  CASE text = "hello world" ->
         <<185, 77, 39, 185, 147, 77, 62, 8, 165, 46, 82, 215, 218, 125, 171, 250,
           196, 132, 239, 227, 122, 83, 128, 238, 144, 136, 247, 172, 226, 239, 205, 233>>
    [] text = "goodbye" ->
         <<130, 227, 90, 99, 206, 186, 55, 233, 100, 100, 52, 197, 221, 65, 46, 165,
           119, 20, 127, 30, 74, 65, 204, 222, 22, 20, 37, 49, 135, 227, 219, 249>>
    [] text = "hello" ->
         <<44, 242, 77, 186, 95, 176, 163, 14, 38, 232, 59, 42, 197, 185, 226, 158,
           27, 22, 30, 92, 31, 167, 66, 94, 115, 4, 51, 98, 147, 139, 152, 36>>

\* b = h * ((EMBEDDING_DIM * 4 // len(h)) + 1): byte j (0-based) of the repeated digest.
RepeatedByte(h, j) == h[(j % Len(h)) + 1]

\* int.from_bytes(chunk, "little") % 100000 for the 4 bytes at 4i..4i+3 (i 0-based).
\* 2^24 * b3 is reduced before it is added (2^24 % 100000 = 77216), which leaves
\* the residue unchanged and keeps the sum inside 32 bits.
ChunkMod(h, i) ==
  ( RepeatedByte(h, 4 * i)
    + 256 * RepeatedByte(h, 4 * i + 1)
    + 65536 * RepeatedByte(h, 4 * i + 2)
    + 77216 * RepeatedByte(h, 4 * i + 3) ) % 100000

\* fake_embed: component i is (n % 100000) / 100000.0; the model keeps the
\* numerator n % 100000 of each component.
fake_embed(text) == [i \in 1..EMBEDDING_DIM |-> ChunkMod(Sha256Digest(text), i - 1)]

FakeTable == [t \in Texts \cup Queries |-> fake_embed(t)]

\* What the remote embeddings endpoint can answer to one request: a transport
\* failure, a vector of the configured dimension (a function of the text), or a
\* vector of another dimension.
RemoteVector(text) == [i \in 1..EMBEDDING_DIM |-> RepeatedByte(Sha256Digest(text), i - 1)]
RemoteTable == [t \in Texts \cup Queries |-> RemoteVector(t)]
RemoteResponses(text) ==
  { [ok |-> FALSE],
    [ok |-> TRUE, vec |-> RemoteTable[text]],
    [ok |-> TRUE, vec |-> <<0>>] }

Ok(v) == [ok |-> TRUE, val |-> v]
Err(e) == [ok |-> FALSE, err |-> e]

\* openai_embed: the outcomes of one call, given whether OPENAI_API_KEY is set.
openai_embed(text, hasKey) ==
  IF ~hasKey
    THEN {Err("ConfigError")}
    ELSE { IF ~r.ok THEN Err("EmbeddingError")
           ELSE IF Len(r.vec) # EMBEDDING_DIM THEN Err("DimensionMismatch")
           ELSE Ok(r.vec) : r \in RemoteResponses(text) }

\* embed: the outcomes of one call under a configuration.
embed(text, prov, hasKey) ==
  IF prov = "openai" THEN openai_embed(text, hasKey) ELSE {Ok(FakeTable[text])}

\* The vector embed yields for a text when it succeeds.
EmbeddingOf(text, prov) ==
  IF prov = "openai" THEN RemoteTable[text] ELSE FakeTable[text]

\* ------------------------------------------------------------------- state
VARIABLES
  provider,     \* EMBEDDING_PROVIDER: "fake" or "openai"
  apiKey,       \* whether OPENAI_API_KEY is set
  indexExists,  \* es.indices.exists(index=INDEX_NAME)
  store,        \* the index's documents by id, as get/index/delete see them
  visible,      \* the documents as search sees them (store at the last refresh)
  pc,           \* each worker's position
  req,          \* the request a worker is serving
  loc,          \* the handler's locals: ids (ingest), current (update_document)
  result,       \* the response of the handler that has returned
  nextId,       \* uuid4 never repeats: the ids below nextId have been drawn
  deletedOk,    \* history: ids whose deletion a 200 response has reported
  createCount,  \* history: successful es.indices.create calls
  pre           \* history: the store when the handler in flight started, kept
                \* while no other handler has overlapped it

vars == <<provider, apiKey, indexExists, store, visible, pc, req, loc, result,
          nextId, deletedOk, createCount, pre>>

config == <<provider, apiKey>>

Doc(text, meta, vec) == [text |-> text, meta |-> meta, embedding |-> vec]

NoDocs == [x \in {} |-> Doc("", EmptyMap, <<>>)]

\* es.index(id=..., document=...): create or overwrite the document.
Put(docs, id, doc) == [x \in (DOMAIN docs) \cup {id} |-> IF x = id THEN doc ELSE docs[x]]

\* es.delete(id=...) on a document that exists.
Remove(docs, id) == [x \in (DOMAIN docs) \ {id} |-> docs[x]]

NoReq ==
  [op |-> "none", frases |-> <<>>, metadatos |-> None, doc_id |-> 0,
   text |-> None, query |-> "", top_k |-> 0]

NoLoc == [ids |-> <<>>, current |-> None]

\* pre while it says nothing, and the snapshot taken when worker p starts a
\* handler with every other worker outside one.
NoPre == [valid |-> FALSE, proc |-> 0, docs |-> NoDocs]
Snapshot(p) ==
  IF \A q \in Procs \ {p} : pc[q] \in {"boot", "idle", "dead"}
    THEN [valid |-> TRUE, proc |-> p, docs |-> store]
    ELSE NoPre

\* A response: the HTTP status, the exception behind a failure ("" when there
\* is none) and the fields of the body.
Resp(status, err, ids, text, hits) ==
  [status |-> status, err |-> err, ids |-> ids, text |-> text, hits |-> hits]

NoResult == Resp(0, "", <<>>, "", {})
Failure(status, err) == Resp(status, err, <<>>, "", {})

\* The requests.
IngestRequests ==
  { [NoReq EXCEPT !.op = "ingest", !.frases = f, !.metadatos = m] :
      f \in UNION {[1..n -> Texts] : n \in 1..MaxBatch}, m \in OptMaps }
UpdateRequests ==
  { [NoReq EXCEPT !.op = "update_document", !.doc_id = d, !.text = t, !.metadatos = m] :
      d \in Ids, t \in OptTexts, m \in OptMaps }
DeleteRequests == { [NoReq EXCEPT !.op = "delete_document", !.doc_id = d] : d \in Ids }
SearchRequests ==
  { [NoReq EXCEPT !.op = o, !.query = q, !.top_k = k] :
      o \in {"search_lexical", "search_semantic", "search_hybrid"},
      q \in Queries, k \in TopKs }
CreateRequests == { [NoReq EXCEPT !.op = "create_index"] }
HealthRequests == { [NoReq EXCEPT !.op = "health"] }
Requests ==
  IngestRequests \cup UpdateRequests \cup DeleteRequests \cup SearchRequests
    \cup CreateRequests \cup HealthRequests

\* Ids the ingests in flight have still to draw.
Pending(p) ==
  IF req[p].op = "ingest" /\ pc[p] # "done"
    THEN Len(req[p].frases) - Len(loc[p].ids) ELSE 0

RECURSIVE SumPending(_)
SumPending(S) ==
  IF S = {} THEN 0
  ELSE LET p == CHOOSE x \in S : TRUE IN Pending(p) + SumPending(S \ {p})

Init ==
  /\ provider \in {"fake", "openai"}
  /\ apiKey \in BOOLEAN
  /\ (provider = "fake" => ~apiKey)
  /\ indexExists = FALSE
  /\ store = NoDocs
  /\ visible = NoDocs
  /\ pc = [p \in Procs |-> "boot"]
  /\ req = [p \in Procs |-> NoReq]
  /\ loc = [p \in Procs |-> NoLoc]
  /\ result = [p \in Procs |-> NoResult]
  /\ nextId = 1
  /\ deletedOk = {}
  /\ createCount = 0
  /\ pre = NoPre

\* The handler returns (or raises): the worker holds the response.
Return(p, r) ==
  /\ pc' = [pc EXCEPT ![p] = "done"]
  /\ result' = [result EXCEPT ![p] = r]

Goto(p, label) ==
  /\ pc' = [pc EXCEPT ![p] = label]
  /\ UNCHANGED result

\* ---------------------------------------------------------------- startup
\* A worker starts: startup() runs before it serves anything.
StartStartup(p) ==
  /\ pc[p] = "boot"
  /\ req' = [req EXCEPT ![p] = [NoReq EXCEPT !.op = "startup"]]
  /\ loc' = [loc EXCEPT ![p] = NoLoc]
  /\ pre' = Snapshot(p)
  /\ Goto(p, "startup_ping")
  /\ UNCHANGED <<config, indexExists, store, visible, nextId, deletedOk, createCount>>

\* startup: es.ping() is False when the store cannot be reached.
StartupPing(p) ==
  /\ pc[p] = "startup_ping"
  /\ \/ Return(p, Failure(500, "RuntimeError"))
     \/ Goto(p, "ensure_exists")
  /\ UNCHANGED <<config, indexExists, store, visible, req, loc, nextId, deletedOk,
                 createCount, pre>>

\* A worker that is up accepts a request.
StartRequest(p, r, cap) ==
  /\ pc[p] = "idle"
  /\ r.op = "ingest" => (nextId - 1) + SumPending(Procs) + Len(r.frases) <= cap
  /\ req' = [req EXCEPT ![p] = r]
  /\ loc' = [loc EXCEPT ![p] = NoLoc]
  /\ pre' = Snapshot(p)
  /\ Goto(p, CASE r.op = "ingest" -> "ensure_exists"
               [] r.op = "create_index" -> "ensure_exists"
               [] r.op = "delete_document" -> "delete"
               [] r.op = "update_document" -> "update_get"
               [] r.op = "health" -> "health"
               [] OTHER -> "search")
  /\ UNCHANGED <<config, indexExists, store, visible, nextId, deletedOk, createCount>>

\* health (lines 105-113): the configuration, with no call to the store.
Health(p) ==
  /\ pc[p] = "health"
  /\ Return(p, Resp(200, "", <<>>, "", {}))
  /\ UNCHANGED <<config, indexExists, store, visible, req, loc, nextId, deletedOk,
                 createCount, pre>>

\* ----------------------------------------------------------- ensure_index
\* Where the caller of ensure_index goes on when it has returned.
AfterEnsure(p) ==
  IF req[p].op = "ingest"
    THEN Goto(p, "ingest_item")
    ELSE Return(p, Resp(200, "", <<>>, "", {}))

\* ensure_index, line 75: es.indices.exists.
EnsureExists(p) ==
  /\ pc[p] = "ensure_exists"
  /\ \/ Return(p, Failure(500, "BackendUnavailable"))
     \/ /\ indexExists
        /\ AfterEnsure(p)
     \/ /\ ~indexExists
        /\ Goto(p, "ensure_create")
  /\ UNCHANGED <<config, indexExists, store, visible, req, loc, nextId, deletedOk,
                 createCount, pre>>

\* ensure_index, line 95: es.indices.create, which the store refuses for an
\* index that exists.
EnsureCreate(p) ==
  /\ pc[p] = "ensure_create"
  /\ \/ /\ Return(p, Failure(500, "BackendUnavailable"))
        /\ UNCHANGED <<indexExists, createCount>>
     \/ /\ indexExists
        /\ Return(p, Failure(500, "ResourceAlreadyExists"))
        /\ UNCHANGED <<indexExists, createCount>>
     \/ /\ ~indexExists
        /\ indexExists' = TRUE
        /\ createCount' = createCount + 1
        /\ AfterEnsure(p)
  /\ UNCHANGED <<config, store, visible, req, loc, nextId, deletedOk, pre>>

\* ------------------------------------------------------------------ ingest
\* meta = req.metadatos or {}
IngestMeta(r) ==
  IF r.metadatos.some /\ r.metadatos.val # EmptyMap THEN r.metadatos.val ELSE EmptyMap

\* The document ingest builds for a text (lines 130-134).
IngestDoc(r, text, vec) == Doc(text, IngestMeta(r), vec)

\* Line 136: ids.append(doc_id).
AppendIdFront(ids, doc_id) == <<doc_id>> \o ids
AppendId(ids, doc_id) == Append(ids, doc_id)

\* One turn of the loop with the documents stored before it undone when it fails.
IngestItemRollback(p) ==
  /\ pc[p] = "ingest_item"
  /\ LET k == Len(loc[p].ids) + 1
         text == req[p].frases[k]
         doc_id == nextId
         undone == [x \in (DOMAIN store) \ {loc[p].ids[i] : i \in 1..Len(loc[p].ids)}
                      |-> store[x]]
     IN \E e \in embed(text, provider, apiKey) :
          \/ /\ ~e.ok
             /\ Return(p, Failure(500, e.err))
             /\ store' = undone
             /\ UNCHANGED <<loc, nextId>>
          \/ /\ e.ok
             /\ Return(p, Failure(500, "BackendUnavailable"))
             /\ store' = undone
             /\ UNCHANGED <<loc, nextId>>
          \/ /\ e.ok
             /\ store' = Put(store, doc_id, IngestDoc(req[p], text, e.val))
             /\ loc' = [loc EXCEPT ![p].ids = AppendId(@, doc_id)]
             /\ nextId' = nextId + 1
             /\ Goto(p, IF k = Len(req[p].frases) THEN "ingest_refresh" ELSE "ingest_item")
  /\ UNCHANGED <<config, indexExists, visible, req, deletedOk, createCount, pre>>

\* One turn of the loop (lines 127-136): uuid4, embed, es.index, ids.append.
\* An exception of embed or es.index leaves the handler there and then.
IngestItem(p) ==
  /\ pc[p] = "ingest_item"
  /\ LET k == Len(loc[p].ids) + 1
         text == req[p].frases[k]
         doc_id == nextId
     IN \E e \in embed(text, provider, apiKey) :
          \/ /\ ~e.ok
             /\ Return(p, Failure(500, e.err))
             /\ UNCHANGED <<store, loc, nextId>>
          \/ /\ e.ok
             /\ Return(p, Failure(500, "BackendUnavailable"))
             /\ UNCHANGED <<store, loc, nextId>>
          \/ /\ e.ok
             /\ store' = Put(store, doc_id, IngestDoc(req[p], text, e.val))
             /\ loc' = [loc EXCEPT ![p].ids = AppendId(@, doc_id)]
             /\ nextId' = nextId + 1
             /\ Goto(p, IF k = Len(req[p].frases) THEN "ingest_refresh" ELSE "ingest_item")
  /\ UNCHANGED <<config, indexExists, visible, req, deletedOk, createCount, pre>>

\* Lines 138-139: es.indices.refresh, then the response.
IngestRefresh(p) ==
  /\ pc[p] = "ingest_refresh"
  /\ \/ /\ Return(p, Failure(500, "BackendUnavailable"))
        /\ UNCHANGED visible
     \/ /\ visible' = store
        /\ Return(p, Resp(200, "", loc[p].ids, "", {}))
  /\ UNCHANGED <<config, indexExists, store, req, loc, nextId, deletedOk, createCount, pre>>

\* ------------------------------------------------------------------ delete
\* es.delete with a missing document taken for a deletion.
DeleteLenient(p) ==
  /\ pc[p] = "delete"
  /\ \/ /\ Return(p, Failure(404, "BackendUnavailable"))
        /\ UNCHANGED store
     \/ /\ store' = Remove(store, req[p].doc_id)
        /\ Goto(p, "delete_refresh")
  /\ UNCHANGED <<config, indexExists, visible, req, loc, nextId, deletedOk, createCount, pre>>

\* Lines 143-146: es.delete; whatever it raises becomes a 404.
Delete(p) ==
  /\ pc[p] = "delete"
  /\ \/ /\ Return(p, Failure(404, "BackendUnavailable"))
        /\ UNCHANGED store
     \/ /\ req[p].doc_id \notin DOMAIN store
        /\ Return(p, Failure(404, "NotFound"))
        /\ UNCHANGED store
     \/ /\ req[p].doc_id \in DOMAIN store
        /\ store' = Remove(store, req[p].doc_id)
        /\ Goto(p, "delete_refresh")
  /\ UNCHANGED <<config, indexExists, visible, req, loc, nextId, deletedOk, createCount, pre>>

\* The response of delete_document without the refresh before it.
DeleteNoRefresh(p) ==
  /\ pc[p] = "delete_refresh"
  /\ Return(p, Resp(200, "", <<req[p].doc_id>>, "", {}))
  /\ UNCHANGED <<config, indexExists, store, visible, req, loc, nextId, deletedOk,
                 createCount, pre>>

\* Lines 147-148: es.indices.refresh, then the response.
DeleteRefresh(p) ==
  /\ pc[p] = "delete_refresh"
  /\ \/ /\ Return(p, Failure(500, "BackendUnavailable"))
        /\ UNCHANGED <<visible, deletedOk>>
     \/ /\ visible' = store
        /\ UNCHANGED deletedOk
        /\ Return(p, Resp(200, "", <<req[p].doc_id>>, "", {}))
  /\ UNCHANGED <<config, indexExists, store, req, loc, nextId, createCount, pre>>

\* ------------------------------------------------------------------ update
\* Lines 153-156: es.get; whatever it raises becomes a 404.
UpdateGet(p) ==
  /\ pc[p] = "update_get"
  /\ \/ /\ Return(p, Failure(404, "BackendUnavailable"))
        /\ UNCHANGED loc
     \/ /\ req[p].doc_id \notin DOMAIN store
        /\ Return(p, Failure(404, "NotFound"))
        /\ UNCHANGED loc
     \/ /\ req[p].doc_id \in DOMAIN store
        /\ loc' = [loc EXCEPT ![p].current = Some(store[req[p].doc_id])]
        /\ Goto(p, "update_index")
  /\ UNCHANGED <<config, indexExists, store, visible, req, nextId, deletedOk, createCount, pre>>

\* Line 158.
NewText(r, current) == IF r.text.some THEN r.text.val ELSE current.text

\* Line 159.
NewMetaMerged(r, current) ==
  IF r.metadatos.some
    THEN r.metadatos.val
           \cup {kv \in current.meta : \A n \in r.metadatos.val : n[1] # kv[1]}
    ELSE current.meta
NewMeta(r, current) == IF r.metadatos.some THEN r.metadatos.val ELSE current.meta

\* Lines 158-166: the outcomes of building the document update_document writes:
\* the document, or the error embed raised.
NewDocStale(r, current, prov, hasKey) ==
  { IF e.ok THEN Ok(Doc(NewText(r, current), NewMeta(r, current), e.val)) ELSE e :
      e \in embed(current.text, prov, hasKey) }
NewDoc(r, current, prov, hasKey) ==
  { IF e.ok THEN Ok(Doc(NewText(r, current), NewMeta(r, current), e.val)) ELSE e :
      e \in embed(NewText(r, current), prov, hasKey) }

\* Lines 158-167: effective text and metadata, embed, es.index.
UpdateIndex(p) ==
  /\ pc[p] = "update_index"
  /\ \E d \in NewDoc(req[p], loc[p].current.val, provider, apiKey) :
       \/ /\ ~d.ok
          /\ Return(p, Failure(500, d.err))
          /\ UNCHANGED store
       \/ /\ d.ok
          /\ Return(p, Failure(500, "BackendUnavailable"))
          /\ UNCHANGED store
       \/ /\ d.ok
          /\ store' = Put(store, req[p].doc_id, d.val)
          /\ Goto(p, "update_refresh")
  /\ UNCHANGED <<config, indexExists, visible, req, loc, nextId, deletedOk, createCount, pre>>

\* Lines 168-169: es.indices.refresh, then the response.
UpdateRefresh(p) ==
  /\ pc[p] = "update_refresh"
  /\ \/ /\ Return(p, Failure(500, "BackendUnavailable"))
        /\ UNCHANGED visible
     \/ /\ visible' = store
        /\ Return(p, Resp(200, "", <<req[p].doc_id>>,
                          NewText(req[p], loc[p].current.val), {}))
  /\ UNCHANGED <<config, indexExists, store, req, loc, nextId, deletedOk, createCount, pre>>

\* ------------------------------------------------------------------ search
\* The terms the store's analyzer makes of a string.
Terms(text) ==
  CASE text = "hello world" -> {"hello", "world"}
    [] text = "goodbye" -> {"goodbye"}
    [] text = "hello" -> {"hello"}

Min(a, b) == IF a < b THEN a ELSE b

\* The subsets of S with n members, or all of S when it has fewer.
Top(S, n) == {H \in SUBSET S : Cardinality(H) = Min(n, Cardinality(S))}

\* The hit sets es.search may answer.  A match query (lines 174-178) yields
\* size=top_k of the searchable documents that share a term with the query; a
\* knn clause (lines 190-199, 215-231) makes every searchable document a
\* candidate.  The store's scores decide which ones; the model leaves them open.
Hits(r, docs) ==
  IF r.op = "search_lexical"
    THEN Top({d \in DOMAIN docs : Terms(r.query) \cap Terms(docs[d].text) # {}}, r.top_k)
    ELSE Top(DOMAIN docs, r.top_k)

\* search_lexical, search_semantic, search_hybrid: embed the query (the last
\* two), then es.search.
Search(p) ==
  /\ pc[p] = "search"
  /\ \/ /\ req[p].op # "search_lexical"
        /\ \E e \in embed(req[p].query, provider, apiKey) :
             /\ ~e.ok
             /\ Return(p, Failure(500, e.err))
     \/ Return(p, Failure(500, "BackendUnavailable"))
     \/ /\ req[p].op # "search_lexical" =>
             \E e \in embed(req[p].query, provider, apiKey) : e.ok
        /\ \E H \in Hits(req[p], visible) : Return(p, Resp(200, "", <<>>, "", H))
  /\ UNCHANGED <<config, indexExists, store, visible, req, loc, nextId, deletedOk,
                 createCount, pre>>

\* ------------------------------------------------------------- environment
\* The response has been sent; a worker whose startup raised is gone.
Finish(p) ==
  /\ pc[p] = "done"
  /\ pc' = [pc EXCEPT ![p] =
              IF req[p].op = "startup" /\ result[p].status # 200 THEN "dead" ELSE "idle"]
  /\ req' = [req EXCEPT ![p] = NoReq]
  /\ loc' = [loc EXCEPT ![p] = NoLoc]
  /\ result' = [result EXCEPT ![p] = NoResult]
  /\ pre' = NoPre
  /\ deletedOk' = IF req[p].op = "delete_document" /\ result[p].status = 200
                     THEN deletedOk \cup {req[p].doc_id} ELSE deletedOk
  /\ UNCHANGED <<config, indexExists, store, visible, nextId, createCount>>

\* The store refreshes the index on its own schedule as well.
AutoRefresh ==
  /\ visible # store
  /\ visible' = store
  /\ UNCHANGED <<config, indexExists, store, pc, req, loc, result, nextId, deletedOk,
                 createCount, pre>>

Step(p) ==
  \/ StartupPing(p)
  \/ Health(p)
  \/ EnsureExists(p)
  \/ EnsureCreate(p)
  \/ IngestItem(p)
  \/ IngestRefresh(p)
  \/ Delete(p)
  \/ DeleteRefresh(p)
  \/ UpdateGet(p)
  \/ UpdateIndex(p)
  \/ UpdateRefresh(p)
  \/ Search(p)

\* No worker holds a response that has yet to leave.
Settled == \A p \in Procs : pc[p] # "done"

\* A response leaves its worker before anything else happens: what it says is
\* read against the store as its handler left it.  The workers serve requests
\* concurrently.
Next ==
  \/ \E p \in Procs : Finish(p)
  \/ Settled /\ \E p \in Procs : StartStartup(p)
  \/ Settled /\ \E p \in Procs : \E r \in Requests : StartRequest(p, r, ParDocs)
  \/ Settled /\ \E p \in Procs : Step(p)
  \/ Settled /\ AutoRefresh

Spec == Init /\ [][Next]_vars

\* No other worker is inside a handler.
Quiet(p) == \A q \in Procs \ {p} : pc[q] \in {"boot", "idle", "dead"}

\* The handlers run one after the other: a worker starts one only when no other
\* worker is inside one.
NextSeq ==
  \/ \E p \in Procs : Finish(p)
  \/ Settled /\ \E p \in Procs : Quiet(p) /\ StartStartup(p)
  \/ Settled /\ \E p \in Procs : \E r \in Requests : Quiet(p) /\ StartRequest(p, r, MaxDocs)
  \/ Settled /\ \E p \in Procs : Step(p)
  \/ Settled /\ AutoRefresh

SpecSeq == Init /\ [][NextSeq]_vars

\* ------------------------------------------------------------------ claims
\* Worker p holds the response of a handler of the given endpoint.
Returned(p, op) == pc[p] = "done" /\ req[p].op = op

\* Worker p holds a response of a handler that no other handler overlapped:
\* pre.docs is the store as that handler found it.
Alone(p) == pre.valid /\ pre.proc = p

\* The ids of a sequence.
Range(seq) == {seq[i] : i \in 1..Len(seq)}

\* C1: in every reachable state, under any interleaving of the handlers, every
\* stored document's embedding is the embedding of the text stored with it (in
\* the store and in what search sees of it).
C1_EmbeddingInSync ==
  /\ \A d \in DOMAIN store : store[d].embedding = EmbeddingOf(store[d].text, provider)
  /\ \A d \in DOMAIN visible : visible[d].embedding = EmbeddingOf(visible[d].text, provider)

\* C1 witness: an update has replaced the text of a stored document.
C1_Witness ==
  \E p \in Procs :
    /\ Returned(p, "update_document") /\ result[p].status = 200
    /\ req[p].text.some
    /\ req[p].text.val # loc[p].current.val.text
    /\ req[p].doc_id \in DOMAIN store
    /\ store[req[p].doc_id].text = req[p].text.val

\* C2: once a delete of an id has been answered with success, the id denotes no
\* stored document, no search answered afterwards lists it, and another delete
\* of it is answered 404.
C2_DeletedStaysDeleted ==
  \A d \in deletedOk :
    /\ d \notin DOMAIN store
    /\ d \notin DOMAIN visible
    /\ \A p \in Procs :
         /\ pc[p] = "done" => d \notin result[p].hits
         /\ Returned(p, "delete_document") /\ req[p].doc_id = d => result[p].status = 404

\* C3: an update or delete of an id that is not in the store is answered 404,
\* leaves the store as it was, and (update) ends at es.get, before embed and
\* es.index.
C3_MissingIdIsNotFound ==
  \A p \in Procs :
    /\ Returned(p, "update_document") \/ Returned(p, "delete_document")
    /\ Alone(p)
    /\ req[p].doc_id \notin DOMAIN pre.docs
    => /\ result[p].status = 404
       /\ store = pre.docs
       /\ ~loc[p].current.some

\* C3 witness: a delete of an absent id has been answered while the store
\* holds a document.
C3_Witness ==
  \E p \in Procs :
    /\ Returned(p, "delete_document")
    /\ Alone(p)
    /\ req[p].doc_id \notin DOMAIN pre.docs
    /\ DOMAIN pre.docs # {}

\* The ids drawn before the ingest whose response lists ids.
PriorIds(ids) == 1..(nextId - 1 - Len(ids))

\* C4: a successful ingest answers one id per text in input order, pairwise
\* distinct and never drawn before, and the store is then the store it found
\* plus, under ids[i], the document (texts[i], metadata or {}, embed(texts[i])).
C4_IngestStoresBatch ==
  \A p \in Procs :
    Returned(p, "ingest") /\ result[p].status = 200 /\ Alone(p) =>
      LET ids == result[p].ids
          f == req[p].frases
          meta == IF req[p].metadatos.some THEN req[p].metadatos.val ELSE EmptyMap
      IN /\ Len(ids) = Len(f)
         /\ \A i, j \in 1..Len(ids) : i # j => ids[i] # ids[j]
         /\ Range(ids) \cap (PriorIds(ids) \cup DOMAIN pre.docs) = {}
         /\ DOMAIN store = DOMAIN pre.docs \cup Range(ids)
         /\ \A d \in DOMAIN pre.docs : store[d] = pre.docs[d]
         /\ \A i \in 1..Len(ids) :
              store[ids[i]] = Doc(f[i], meta, EmbeddingOf(f[i], provider))

\* C4 witness: an ingest of two different texts has been answered with success.
C4_Witness ==
  \E p \in Procs :
    /\ Returned(p, "ingest") /\ result[p].status = 200 /\ Alone(p)
    /\ Len(req[p].frases) = 2
    /\ req[p].frases[1] # req[p].frases[2]

\* C5: a successful update leaves the store it found with the one document
\* replaced by (supplied text or previous text, supplied metadata or previous
\* metadata, embed(that text)); supplied metadata replaces the previous one
\* whole.
C5_UpdateRewritesDocument ==
  \A p \in Procs :
    Returned(p, "update_document") /\ result[p].status = 200 /\ Alone(p) =>
      LET d == req[p].doc_id
      IN /\ d \in DOMAIN pre.docs
         /\ LET old == pre.docs[d]
                t == IF req[p].text.some THEN req[p].text.val ELSE old.text
                m == IF req[p].metadatos.some THEN req[p].metadatos.val ELSE old.meta
            IN /\ store = [pre.docs EXCEPT ![d] = Doc(t, m, EmbeddingOf(t, provider))]
               /\ result[p].ids = <<d>>
               /\ result[p].text = t

\* C5 witness: an update supplying only an empty metadata mapping has been
\* answered with success for a document that had metadata, beside another
\* document.
C5_Witness ==
  \E p \in Procs :
    /\ Returned(p, "update_document") /\ result[p].status = 200 /\ Alone(p)
    /\ ~req[p].text.some
    /\ req[p].metadatos = Some(EmptyMap)
    /\ pre.docs[req[p].doc_id].meta = LangEn
    /\ Cardinality(DOMAIN pre.docs) = 2

\* C6: an ingest that fails is answered with the failure and no ids, and the
\* store is then the store it found plus the documents of the items before the
\* failing one: nothing of the failing item or the later ones, nothing undone.
C6_IngestFailureKeepsPrefix ==
  \A p \in Procs :
    Returned(p, "ingest") /\ result[p].status # 200 /\ Alone(p) =>
      LET ids == loc[p].ids
          f == req[p].frases
          meta == IF req[p].metadatos.some THEN req[p].metadatos.val ELSE EmptyMap
      IN /\ result[p].status = 500
         /\ result[p].err # ""
         /\ result[p].ids = <<>>
         /\ Len(ids) <= Len(f)
         /\ DOMAIN store = DOMAIN pre.docs \cup Range(ids)
         /\ Range(ids) \cap DOMAIN pre.docs = {}
         /\ Cardinality(Range(ids)) = Len(ids)
         /\ \A d \in DOMAIN pre.docs : store[d] = pre.docs[d]
         /\ \A i \in 1..Len(ids) :
              store[ids[i]] = Doc(f[i], meta, EmbeddingOf(f[i], provider))

\* C6 witness: an ingest of two texts has failed at the second one, in embed or
\* in es.index, with the first one stored.
C6_Witness ==
  \E p \in Procs :
    /\ Returned(p, "ingest") /\ result[p].status = 500 /\ Alone(p)
    /\ Len(req[p].frases) = 2
    /\ Len(loc[p].ids) = 1
    /\ loc[p].ids[1] \in DOMAIN store

\* C7: when an ingest, update or delete is answered with success, what search
\* sees is the store as the handler's writes left it.
C7_VisibleAtReturn ==
  \A p \in Procs :
    /\ pc[p] = "done"
    /\ req[p].op \in {"ingest", "update_document", "delete_document"}
    /\ result[p].status = 200
    => visible = store

\* C7 witness: a delete has been answered with success, and the document it
\* removed is in the store the handler found.
C7_Witness ==
  \E p \in Procs :
    /\ Returned(p, "delete_document") /\ result[p].status = 200 /\ Alone(p)
    /\ req[p].doc_id \in DOMAIN pre.docs
    /\ req[p].doc_id \notin DOMAIN visible

\* C8: however the invocations of ensure_index interleave, the index is created
\* at most once, exists when one has returned, and none fails because the index
\* exists already.
C8_EnsureIndexIdempotent ==
  /\ createCount <= 1
  /\ \A p \in Procs :
       pc[p] = "done" /\ req[p].op \in {"startup", "create_index", "ingest"} =>
         /\ result[p].err # "ResourceAlreadyExists"
         /\ result[p].status = 200 => indexExists

\* C9: an update or delete that met a failure of the store is not answered 404:
\* 404 is kept for an id that is not in the store.
C9_BackendFailureNotMasked ==
  \A p \in Procs :
    Returned(p, "update_document") \/ Returned(p, "delete_document") =>
      /\ result[p].err = "BackendUnavailable" => result[p].status # 404
      /\ result[p].status = 404 /\ Alone(p) => req[p].doc_id \notin DOMAIN pre.docs

\* C10: when a metadata-only update of an id writes while a text-only update of
\* the same id has written and is about to answer, the document then holds the
\* text of the one and the metadata of the other.
C10_ConcurrentUpdatesSerializable ==
  [][ \A p, q \in Procs :
        /\ p # q
        /\ pc[p] = "update_index" /\ pc'[p] = "update_refresh"
        /\ pc[q] = "update_refresh"
        /\ req[p].doc_id = req[q].doc_id
        /\ ~req[p].text.some /\ req[p].metadatos.some
        /\ req[q].text.some /\ ~req[q].metadatos.some
        => /\ store'[req[p].doc_id].text = req[q].text.val
           /\ store'[req[p].doc_id].meta = req[p].metadatos.val ]_vars

====
